---- MODULE Spec2Model ----
(***************************************************************************)
(* Model of auto-notion-scheduler: the weekly job generateWeek, the Notion *)
(* service it calls (verifyConnection, getTemplateTasks,                   *)
(* createCalendarEventsBatch, createCalendarEvent), the retry wrapper      *)
(* retryOperation, the error helpers and the date helpers of the           *)
(* transform, and the two entry points (index.js main and the direct       *)
(* execution block of the job).                                            *)
(*                                                                         *)
(* Conventions.                                                            *)
(*  - Text that the code builds by concatenation (error messages) is a     *)
(*    sequence of fragments; concatenation is \o and "contains" is         *)
(*    computed on the fragments.                                           *)
(*  - A time string is a sequence of one-character strings, so that        *)
(*    split(':') and Number() are computed, not assumed.                   *)
(*  - Instants are minutes since an epoch whose day 0 is a Monday (UTC).   *)
(*    A Date is [valid, t]; a JS number is [nan, n].                       *)
(***************************************************************************)
EXTENDS Integers, Sequences, FiniteSets, TLC

\* ------------------------------------------------------------------ bounds

\* Largest number of rows the template data set holds in the model.
MaxTasks == 2

\* Largest maxRetries given to retryOperation in RetrySpec.
MaxAttemptsBound == 4

\* Minutes the clock may advance during the transform loop in ClockSpec.
MaxClockAdvance == 2

\* ------------------------------------------------------- program constants

\* retryOperation(fn, maxRetries = 3, delay = 1000)
DefaultMaxRetries == 3
DefaultDelay == 1000

\* parseTemplatePage: extractNumber(properties.Duration) || 60
DefaultDuration == 60

\* createNotionDateObject: const offsetHours = -1
offsetHours == -1

MinutesPerDay == 24 * 60

\* ------------------------------------------------------------ small helpers

Absent == [absent |-> TRUE]

SeqMap(f(_), s) == [k \in 1..Len(s) |-> f(s[k])]

\* sub occurs in s as a contiguous run of fragments
Contains(s, sub) ==
    \E k \in 0..(Len(s) - Len(sub)) : SubSeq(s, k + 1, k + Len(sub)) = sub

\* JS numbers as far as the transform needs them
NaN == [nan |-> TRUE, n |-> 0]
Num(n) == [nan |-> FALSE, n |-> n]

\* JS Date: an instant in minutes, or Invalid Date
InvalidDate == [valid |-> FALSE, t |-> 0]
DateOf(t) == [valid |-> TRUE, t |-> t]

Undefined == [name |-> "undefined"]

\* ------------------------------------------------ errorHandler.js (part_002)

\* What the Notion client rejects a call with: a code and a message.
APIError(code, message) == [name |-> "APIResponseError", code |-> code, message |-> message]

\* class NotionError extends Error { constructor(message, originalError) }
NotionError(message, originalError) ==
    [name |-> "NotionError", message |-> message, originalError |-> originalError]

\* new Error(message) / RangeError thrown by the date helpers
PlainError(message) == [name |-> "Error", message |-> message]

\* Variant of handleError: it logs and comes back instead of rethrowing.
handleError_Returns(error, context) ==
    [threw |-> FALSE,
     error |-> error,
     logged |-> <<"[", context, "] Error: ">>
                 \o (IF error.message # <<>> THEN error.message ELSE <<"Error desconocido">>)]

\* handleError logs and ALWAYS rethrows (throw error, line 46): the value says
\* whether control leaves by a throw and with which error.
handleError(error, context) ==
    [threw |-> TRUE,
     error |-> error,
     logged |-> <<"[", context, "] Error: ">>
                 \o (IF error.message # <<>> THEN error.message ELSE <<"Error desconocido">>)]

\* Variant of processNotionError: the validation branch leaves out error.message.
processNotionError_DropsValidationMessage(error) ==
    IF error.code = "object_not_found"
      THEN <<"Base de datos o pagina no encontrada. Verifica los IDs en tu .env">>
    ELSE IF error.code = "unauthorized"
      THEN <<"Token de API invalido o sin permisos. Verifica tu NOTION_API_KEY">>
    ELSE IF error.code = "restricted_resource"
      THEN <<"La integracion no tiene acceso a este recurso. Comparte la base de datos con tu integracion">>
    ELSE IF error.code = "validation_error"
      THEN <<"Error de validacion">>
    ELSE IF error.message # <<>> THEN error.message
    ELSE <<"Error desconocido de Notion">>

\* processNotionError: the friendly text for an API error.
processNotionError(error) ==
    IF error.code = "object_not_found"
      THEN <<"Base de datos o pagina no encontrada. Verifica los IDs en tu .env">>
    ELSE IF error.code = "unauthorized"
      THEN <<"Token de API invalido o sin permisos. Verifica tu NOTION_API_KEY">>
    ELSE IF error.code = "restricted_resource"
      THEN <<"La integracion no tiene acceso a este recurso. Comparte la base de datos con tu integracion">>
    ELSE IF error.code = "validation_error"
      THEN <<"Error de validacion: ">> \o error.message
    ELSE IF error.message # <<>> THEN error.message
    ELSE <<"Error desconocido de Notion">>

\* retryOperation, as the record of its locals plus what it has done so far:
\*   i, lastError       the loop's locals
\*   status             "calling" (fn() awaited), "waiting" (the setTimeout
\*                      of line 126 awaited), "returned", "threw"
\*   value              what it returned / error it threw
\*   calls, waits       how often fn was invoked, and the delays slept, in order
Ok(value) == [ok |-> TRUE, value |-> value]
Fail(error) == [ok |-> FALSE, error |-> error]

\* Variant of RetryLoop: the loop test is i <= maxRetries, one attempt more.
RetryLoop_OneMore(r, i) ==
    IF i <= r.maxRetries
      THEN [r EXCEPT !.i = i, !.status = "calling", !.calls = @ + 1]
      ELSE [r EXCEPT !.i = i, !.status = "threw", !.value = r.lastError]

\* Variant of RetryLoop: the loop stops one attempt short of maxRetries.
RetryLoop_StopsOneShort(r, i) ==
    IF i < r.maxRetries - 1
      THEN [r EXCEPT !.i = i, !.status = "calling", !.calls = @ + 1]
      ELSE [r EXCEPT !.i = i, !.status = "threw", !.value = r.lastError]

\* the for-loop test of line 118, entered with the counter at i
RetryLoop(r, i) ==
    IF i < r.maxRetries
      THEN [r EXCEPT !.i = i, !.status = "calling", !.calls = @ + 1]
      ELSE [r EXCEPT !.i = i, !.status = "threw", !.value = r.lastError]

retryOperation(maxRetries, delay) ==
    RetryLoop([i |-> 0, maxRetries |-> maxRetries, delay |-> delay,
               lastError |-> Undefined, status |-> "init", value |-> Undefined,
               calls |-> 0, waits |-> <<>>], 0)

\* Variant of RetrySettle: the success of an attempt that follows a failed one
\* is lost, lastError being thrown whenever it is set.
RetrySettle_ThrowsIfAnyFailed(r, outcome) ==
    IF outcome.ok
      THEN (IF r.lastError = Undefined
              THEN [r EXCEPT !.status = "returned", !.value = outcome.value]
              ELSE [r EXCEPT !.status = "threw", !.value = r.lastError])
      ELSE LET caught == [r EXCEPT !.lastError = outcome.error] IN
           IF r.i < r.maxRetries - 1
             THEN [caught EXCEPT !.status = "waiting",
                                 !.waits = Append(@, r.delay * (r.i + 1))]
             ELSE RetryLoop(caught, r.i + 1)

\* Variant of RetrySettle: a validation or unauthorized error is not retried.
RetrySettle_NoRetryOnClientError(r, outcome) ==
    IF outcome.ok
      THEN [r EXCEPT !.status = "returned", !.value = outcome.value]
      ELSE LET caught == [r EXCEPT !.lastError = outcome.error] IN
           IF outcome.error.code \in {"validation_error", "unauthorized"}
             THEN [caught EXCEPT !.status = "threw", !.value = outcome.error]
           ELSE IF r.i < r.maxRetries - 1
             THEN [caught EXCEPT !.status = "waiting",
                                 !.waits = Append(@, r.delay * (r.i + 1))]
             ELSE RetryLoop(caught, r.i + 1)

\* Variant of RetrySettle: lastError keeps the error of the first failed
\* attempt.
RetrySettle_KeepsFirstError(r, outcome) ==
    IF outcome.ok
      THEN [r EXCEPT !.status = "returned", !.value = outcome.value]
      ELSE LET caught == IF r.lastError = Undefined
                           THEN [r EXCEPT !.lastError = outcome.error]
                           ELSE r
           IN IF r.i < r.maxRetries - 1
                THEN [caught EXCEPT !.status = "waiting",
                                    !.waits = Append(@, r.delay * (r.i + 1))]
                ELSE RetryLoop(caught, r.i + 1)

\* Variant of RetrySettle: the delay is slept after every failed attempt,
\* the last one included.
RetrySettle_WaitsAfterLast(r, outcome) ==
    IF outcome.ok
      THEN [r EXCEPT !.status = "returned", !.value = outcome.value]
      ELSE [r EXCEPT !.lastError = outcome.error, !.status = "waiting",
                     !.waits = Append(@, r.delay * (r.i + 1))]

\* fn() settled: lines 120-128
RetrySettle(r, outcome) ==
    IF outcome.ok
      THEN [r EXCEPT !.status = "returned", !.value = outcome.value]
      ELSE LET caught == [r EXCEPT !.lastError = outcome.error] IN
           IF r.i < r.maxRetries - 1
             THEN [caught EXCEPT !.status = "waiting",
                                 !.waits = Append(@, r.delay * (r.i + 1))]
             ELSE RetryLoop(caught, r.i + 1)

\* the timer of line 126 fired: i++ and the loop test again
RetryTimer(r) == RetryLoop(r, r.i + 1)

\* --------------------------------------------------- dateHelper.js (part_001)

Digits == <<"0", "1", "2", "3", "4", "5", "6", "7", "8", "9">>

DigitValue(c) == (CHOOSE k \in 1..10 : Digits[k] = c) - 1

IsDigit(c) == \E k \in 1..10 : Digits[k] = c

\* String.prototype.split(':') on a sequence of characters
RECURSIVE SplitFrom(_, _, _)
SplitFrom(s, k, cur) ==
    IF k > Len(s) THEN <<cur>>
    ELSE IF s[k] = ":" THEN <<cur>> \o SplitFrom(s, k + 1, <<>>)
    ELSE SplitFrom(s, k + 1, Append(cur, s[k]))

Split(s) == SplitFrom(s, 1, <<>>)

\* Number(part) for strings of the model's alphabet (digits and letters):
\* "" is 0, a run of decimal digits is its value, anything else is NaN.
RECURSIVE DecimalValue(_, _)
DecimalValue(part, acc) ==
    IF part = <<>> THEN acc
    ELSE DecimalValue(Tail(part), acc * 10 + DigitValue(Head(part)))

Number(part) ==
    IF \A k \in 1..Len(part) : IsDigit(part[k])
      THEN Num(DecimalValue(part, 0))
      ELSE NaN

\* element k of the array timeString.split(':').map(Number); undefined past its end
Destructure(parts, k) == IF k <= Len(parts) THEN Number(parts[k]) ELSE NaN

\* Local wall clock of the process: local = UTC + offset (minutes).
LocalDay(t, off) == (t + off) \div MinutesPerDay
LocalMinuteOfDay(t, off) == (t + off) % MinutesPerDay

\* Date.prototype.getDay(): Sunday = 0; epoch day 0 is a Monday
GetDay(t, off) == (LocalDay(t, off) + 1) % 7

\* Variant of startOfWeek: the week starts on Sunday (date-fns' default).
startOfWeek_SundayStart(t, off) ==
    (LocalDay(t, off) - GetDay(t, off)) * MinutesPerDay - off

\* date-fns startOfWeek(date, { weekStartsOn: 1 })
startOfWeek(t, off) ==
    LET day == GetDay(t, off)
        diff == (IF day < 1 THEN 7 ELSE 0) + day - 1
    IN (LocalDay(t, off) - diff) * MinutesPerDay - off

addWeeks(t, n) == t + n * 7 * MinutesPerDay

getNextWeekStart(referenceDate, off) == startOfWeek(addWeeks(referenceDate, 1), off)

\* the table `days` of dayNameToIndex
DayTable ==
    ("Sunday" :> 0) @@ ("Domingo" :> 0) @@ ("Monday" :> 1) @@ ("Lunes" :> 1) @@
    ("Tuesday" :> 2) @@ ("Martes" :> 2) @@ ("Wednesday" :> 3) @@ ("Miércoles" :> 3) @@
    ("Thursday" :> 4) @@ ("Jueves" :> 4) @@ ("Friday" :> 5) @@ ("Viernes" :> 5) @@
    ("Saturday" :> 6) @@ ("Sábado" :> 6)

\* The properties an object literal inherits from Object.prototype: days[key]
\* finds them although the literal does not list them.
ObjectPrototypeKeys ==
    {"constructor", "toString", "toLocaleString", "valueOf", "hasOwnProperty",
     "isPrototypeOf", "propertyIsEnumerable", "__proto__", "__defineGetter__",
     "__defineSetter__", "__lookupGetter__", "__lookupSetter__"}

\* An inherited property is a function (or the prototype object): it is not
\* nullish, it is not === -1, and arithmetic on it gives NaN.
InheritedProperty == NaN

\* days[dayName] ?? -1
dayNameToIndex(dayName) ==
    IF dayName \in DOMAIN DayTable THEN Num(DayTable[dayName])
    ELSE IF dayName \in ObjectPrototypeKeys THEN InheritedProperty
    ELSE Num(-1)

\* getNextWeekDayDate: [threw, error] or [threw, value]; now is new Date().
\* With a dayIndex that is not a number, daysToAdd is NaN, the test NaN < 0
\* is false and setDate(NaN) leaves an Invalid Date, which is returned.
getNextWeekDayDate(dayName, now, off) ==
    LET nextWeekStart == getNextWeekStart(now, off)
        dayIndex == dayNameToIndex(dayName)
        d0 == dayIndex.n - 1
        daysToAdd == IF d0 < 0 THEN d0 + 7 ELSE d0
        targetDate == nextWeekStart + daysToAdd * MinutesPerDay
    IN IF ~dayIndex.nan /\ dayIndex.n = -1
         THEN [threw |-> TRUE, error |-> PlainError(<<"Dia no valido: ", dayName>>)]
       ELSE IF dayIndex.nan
         THEN [threw |-> FALSE, value |-> InvalidDate]
         ELSE [threw |-> FALSE,
               value |-> DateOf(targetDate - LocalMinuteOfDay(targetDate, off))]

\* date-fns setHours / setMinutes in local time; a NaN argument gives Invalid Date
setHours(date, hours, off) ==
    IF ~date.valid \/ hours.nan THEN InvalidDate
    ELSE DateOf(date.t - (LocalMinuteOfDay(date.t, off) \div 60) * 60 + hours.n * 60)

setMinutes(date, minutes, off) ==
    IF ~date.valid \/ minutes.nan THEN InvalidDate
    ELSE DateOf(date.t - (LocalMinuteOfDay(date.t, off) % 60) + minutes.n)

parseTimeToDate(baseDate, timeString, off) ==
    LET parts == Split(timeString)
        hours == Destructure(parts, 1)
        minutes == Destructure(parts, 2)
    IN setMinutes(setHours(baseDate, hours, off), minutes, off)

\* date-fns addMinutes
calculateEndDate(startDate, duration) ==
    IF ~startDate.valid THEN InvalidDate ELSE DateOf(startDate.t + duration)

\* Date.prototype.toISOString: the UTC digits, or a RangeError on Invalid Date
formatForNotion(date) ==
    IF ~date.valid
      THEN [threw |-> TRUE, error |-> PlainError(<<"Invalid time value">>)]
      ELSE [threw |-> FALSE,
            value |-> [day |-> date.t \div MinutesPerDay,
                       hour |-> (date.t % MinutesPerDay) \div 60,
                       minute |-> date.t % 60]]

\* createNotionDateObject(startDate, endDate, timezone = 'America/Bogota')
createNotionDateObject(startDate, endDate, timezone) ==
    LET adjustedStart == IF startDate.valid THEN DateOf(startDate.t + offsetHours * 60)
                         ELSE InvalidDate
        adjustedEnd == IF endDate.valid THEN DateOf(endDate.t + offsetHours * 60)
                       ELSE InvalidDate
        s == formatForNotion(adjustedStart)
        e == formatForNotion(adjustedEnd)
    IN IF s.threw THEN s
       ELSE IF e.threw THEN e
       ELSE [threw |-> FALSE,
             value |-> [start |-> s.value, end |-> e.value, time_zone |-> timezone]]

\* ------------------------------------------- notionService.js: reading rows

\* extractTitle / extractSelect: '' when the property is missing or empty
extractTitle(property) == IF property = Absent THEN "" ELSE property.plain_text
extractSelect(property) == IF property = Absent THEN "" ELSE property.name

\* extractText: for Time the text is a character sequence, '' is <<>>
extractText(property, empty) == IF property = Absent THEN empty ELSE property.plain_text

\* extractNumber: null when the property is missing or holds no number
Null == [null |-> TRUE, n |-> 0]
extractNumber(property) ==
    IF property = Absent THEN Null ELSE [null |-> FALSE, n |-> property.number]

\* x || y on a number-or-null: null and 0 are falsy
OrNumber(x, y) == IF x.null \/ x.n = 0 THEN y ELSE x.n

\* x || y on a string: '' is falsy
OrString(x, y) == IF x = "" THEN y ELSE x

parseTemplatePage(page) ==
    [id |-> page.id,
     name |-> extractTitle(page.Name),
     day |-> extractSelect(page.Day),
     time |-> extractText(page.Time, <<>>),
     duration |-> OrNumber(extractNumber(page.Duration), DefaultDuration),
     notes |-> OrString(extractText(page.Notes, ""), "")]

\* ------------------------------------------------ generateWeek.js (part_003)

\* transformTaskToEvent: [threw, error] or [threw, value]; the catch rethrows.
\* createNotionDateObject is called with two arguments: its timezone default applies.
transformTaskToEvent(task, now, off) ==
    LET dayDate == getNextWeekDayDate(task.day, now, off) IN
    IF dayDate.threw THEN dayDate
    ELSE LET startDate == parseTimeToDate(dayDate.value, task.time, off)
             endDate == calculateEndDate(startDate, task.duration)
             notionDate == createNotionDateObject(startDate, endDate, "America/Bogota")
         IN IF notionDate.threw THEN notionDate
            ELSE [threw |-> FALSE,
                  value |-> [name |-> task.name,
                             date |-> notionDate.value,
                             notes |-> OrString(task.notes,
                                           "Generado automaticamente desde plantilla")]]

\* (ms / 1000).toFixed(2): seconds and hundredths, rounded
toFixed2(ms) ==
    LET hundredths == (ms + 5) \div 10
    IN [seconds |-> hundredths \div 100, hundredths |-> hundredths % 100]

\* What the promise of generateWeek settles with.
Returned(value) == [kind |-> "returned", value |-> value]
Threw(error) == [kind |-> "threw", error |-> error]
Pending == [kind |-> "pending"]

\* the catch block of generateWeek, lines 135-152: handleError is called
\* before the return statement, which runs only if handleError comes back.
GenerateWeekCatch(error, elapsed) ==
    LET h == handleError(error, "GenerateWeek") IN
    IF h.threw THEN Threw(h.error)
    ELSE Returned([success |-> FALSE, created |-> 0, failed |-> 0,
                   duration |-> toFixed2(elapsed), error |-> error.message])

\* the early return of lines 77-85
EmptyResult ==
    [success |-> TRUE, created |-> 0, failed |-> 0,
     message |-> "No hay tareas de plantilla para procesar"]

\* Variant of FinalResult: created counts every event of the batch.
FinalResult_CountsAllAsCreated(batch, elapsed) ==
    [success |-> TRUE,
     created |-> Len(batch.success) + Len(batch.errors),
     failed |-> Len(batch.errors),
     duration |-> toFixed2(elapsed),
     errors |-> [k \in 1..Len(batch.errors) |->
                    [event |-> batch.errors[k].event.name,
                     error |-> batch.errors[k].error.message]]]

\* the return of lines 124-133
ErrorSummary(e) == [event |-> e.event.name, error |-> e.error.message]

FinalResult(batch, elapsed) ==
    [success |-> TRUE,
     created |-> Len(batch.success),
     failed |-> Len(batch.errors),
     duration |-> toFixed2(elapsed),
     errors |-> SeqMap(ErrorSummary, batch.errors)]

\* ------------------------------------------------------------ entry points

\* index.js main, lines 32-52: a returned result is only logged and the
\* process ends on its own (code 0); a rejection reaches process.exit(1).
mainExit(outcome) ==
    IF outcome.kind = "returned"
      THEN (IF outcome.value.success THEN 0 ELSE 0)
      ELSE 1

\* the direct execution block of generateWeek.js, lines 158-173
directExit(outcome) ==
    IF outcome.kind = "returned"
      THEN (IF outcome.value.success THEN 0 ELSE 1)
      ELSE 1

\* ------------------------------------------------- config/environment.js

\* process.env is a function from the names of the variables that are set to
\* their values; !process.env[key] holds for an unset and for an empty one.
EnvMissing(env, key) == key \notin DOMAIN env \/ env[key] = ""

\* process.env[key] || fallback
EnvOr(env, key, fallback) == IF EnvMissing(env, key) THEN fallback ELSE env[key]

\* the array `required` of validateEnvironment
required == <<"NOTION_API_KEY", "TEMPLATE_DB_ID", "CALENDAR_DB_ID">>

\* Variant of validateEnvironment: only the API key is checked.
validateEnvironment_KeyOnly(env) ==
    IF EnvMissing(env, required[1])
      THEN [threw |-> TRUE,
            error |-> PlainError(<<"Faltan variables de entorno requeridas: ", <<required[1]>> >>)]
      ELSE [threw |-> FALSE]

\* validateEnvironment: throws when required.filter(key => !process.env[key])
\* is not empty
validateEnvironment(env) ==
    LET missing == SelectSeq(required, LAMBDA key : EnvMissing(env, key)) IN
    IF Len(missing) > 0
      THEN [threw |-> TRUE,
            error |-> PlainError(<<"Faltan variables de entorno requeridas: ", missing>>)]
      ELSE [threw |-> FALSE]

\* the exported config object (lines 44-54)
config(env) ==
    [notion |-> [apiKey |-> EnvOr(env, "NOTION_API_KEY", ""),
                 templateDbId |-> EnvOr(env, "TEMPLATE_DB_ID", ""),
                 calendarDbId |-> EnvOr(env, "CALENDAR_DB_ID", "")],
     logging |-> [level |-> EnvOr(env, "LOG_LEVEL", "info")],
     timezone |-> EnvOr(env, "TIMEZONE", "UTC")]

\* ------------------------------------------------------------------- state

VARIABLES
    pc,              \* where the process is: "idle", "verifyTemplate",
                     \* "verifyCalendar", "query", "transform", "create",
                     \* "settled" (generateWeek's promise settled), "exited",
                     \* "retryHarness" (RetrySpec only), "loading" (the modules
                     \* are being imported), "loadFailed" (an import threw),
                     \* "dateHarness" (DateSpec only)
    entry,           \* "index" (index.js main) or "direct" (generateWeek.js run directly)
    templateDb,      \* the rows of the template data set
    calendarDb,      \* the rows of the calendar data set
    now,             \* the wall clock read by new Date() (minutes)
    tzOffset,        \* the process's local offset from UTC (minutes)
    elapsedMs,       \* Date.now() - startTime
    templateTasks,   \* generateWeek: templateTasks
    tIdx,            \* position of the loop of lines 94-101
    events,          \* generateWeek: events
    eventTask,       \* for each event, the position of its task in templateTasks
    transformErrors, \* generateWeek: transformErrors
    eIdx,            \* position of the loop of createCalendarEventsBatch
    results,         \* createCalendarEventsBatch: results
    errors,          \* createCalendarEventsBatch: errors
    retry,           \* the running retryOperation, or RetryIdle
    retryLog,        \* RetrySpec: what each attempt of fn settled with, in order
    callLog,         \* every call issued on the Notion client, in order
    invoked,         \* the events createCalendarEvent was invoked with, in order
    gw,              \* what generateWeek's promise settled with
    exitCode,        \* the process exit code, -1 while running
    processEnv,      \* process.env once dotenv has run: the variables that are set
    probe,           \* DateSpec: what getNextWeekDayDate gave for the row's day
    lastSettled      \* what the call of the client that settled last settled with

vars == <<pc, entry, templateDb, calendarDb, now, tzOffset, elapsedMs, templateTasks,
          tIdx, events, eventTask, transformErrors, eIdx, results, errors, retry,
          retryLog, callLog, invoked, gw, exitCode, processEnv, probe,
          lastSettled>>

RetryIdle == [status |-> "idle"]

\* ------------------------------------------------------------------ inputs

\* Rows of the template data set (Notion pages without their id).
Prop(v) == [plain_text |-> v]
Page(name, day, time, duration, notes) ==
    [Name |-> name, Day |-> day, Time |-> time, Duration |-> duration, Notes |-> notes]

PageStandup ==
    Page(Prop("Standup"), [name |-> "Monday"], Prop(<<"0", "9", ":", "0", "0">>),
         [number |-> 30], Prop("daily"))
PageGym ==
    Page(Prop("Gym"), [name |-> "Domingo"], Prop(<<"1", "8", ":", "3", "0">>),
         Absent, Absent)
PageFunday ==
    Page(Prop("Party"), [name |-> "Funday"], Prop(<<"0", "9", ":", "0", "0">>),
         [number |-> 45], Absent)
PageBadTime ==
    Page(Prop("Nap"), [name |-> "Martes"], Prop(<<"9">>), Absent, Absent)

Pages == {PageStandup, PageGym, PageFunday, PageBadTime}

TemplateDbs ==
    UNION {{[k \in 1..n |-> [id |-> k] @@ f[k]] : f \in [1..n -> Pages]} : n \in 0..MaxTasks}

\* What the Notion client can reject a call with.
APIErrors ==
    {APIError("object_not_found", <<"Could not find database">>),
     APIError("unauthorized", <<"API token is invalid">>),
     APIError("restricted_resource", <<"Insufficient permissions">>),
     APIError("validation_error", <<"body failed validation">>),
     APIError("rate_limited", <<"Rate limited">>),
     APIError("none", <<>>)}

Failures == {Fail(e) : e \in APIErrors}

\* The environment with the three required variables set.
FullEnvironment ==
    ("NOTION_API_KEY" :> "secret_key") @@ ("TEMPLATE_DB_ID" :> "template-db") @@
    ("CALENDAR_DB_ID" :> "calendar-db")

\* Every way of leaving required variables unset or empty.
Environments ==
    {[k \in K |-> IF k \in E THEN "" ELSE FullEnvironment[k]] :
        <<K, E>> \in {<<K, E>> \in (SUBSET DOMAIN FullEnvironment) \X
                                   (SUBSET DOMAIN FullEnvironment) : E \subseteq K}}

\* A Sunday 10:00 UTC, as the weekly trigger runs; the process runs in UTC.
ReferenceInstants == {6 * MinutesPerDay + 600}
LocalOffsets == {0}

\* ---------------------------------------------------------------- Init

\* the state of a process that starts, but for the calendar data set
InitProcess ==
    /\ pc = "loading"
    /\ processEnv \in Environments
    /\ probe = Undefined
    /\ entry = "none"
    /\ templateDb \in TemplateDbs
    /\ now \in ReferenceInstants
    /\ tzOffset \in LocalOffsets
    /\ elapsedMs = 0
    /\ templateTasks = <<>>
    /\ tIdx = 0
    /\ events = <<>>
    /\ eventTask = <<>>
    /\ transformErrors = <<>>
    /\ eIdx = 0
    /\ results = <<>>
    /\ errors = <<>>
    /\ retry = RetryIdle
    /\ retryLog = <<>>
    /\ callLog = <<>>
    /\ invoked = <<>>
    /\ gw = Pending
    /\ exitCode = -1
    /\ lastSettled = Undefined

\* a run on an empty calendar data set
Init == calendarDb = <<>> /\ InitProcess

\* --------------------------------------------------------------- actions

\* An entry of callLog: the call, and how it settled ("pending" while in flight).
Call(op, target, event) == [op |-> op, target |-> target, event |-> event, result |-> "pending"]

\* the call in flight (the last one issued) has settled
Settled(log, ok) ==
    [log EXCEPT ![Len(log)].result = IF ok THEN "ok" ELSE "failed"]

\* Node imports the modules of the entry point; both entry points import
\* config/environment.js (index.js directly, generateWeek.js through
\* notionService.js and config/notion.js), whose top level validates the
\* environment. An exception there is uncaught: the process dies with code 1
\* before main or the direct execution block runs.
loadModules ==
    /\ pc = "loading"
    /\ LET v == validateEnvironment(processEnv) IN
       IF v.threw
         THEN pc' = "loadFailed" /\ exitCode' = 1
         ELSE pc' = "idle" /\ exitCode' = exitCode
    /\ UNCHANGED <<entry, templateDb, calendarDb, now, tzOffset, elapsedMs, templateTasks,
                   tIdx, events, eventTask, transformErrors, eIdx, results, errors, retry,
                   callLog, invoked, gw, retryLog, processEnv, probe, lastSettled>>

\* Variant of BeginGenerateWeek: verifyConnection issues its two retrieves
\* together (Promise.all) instead of one after the other.
BeginGenerateWeek_BothChecksAtOnce(from) ==
    /\ pc = "idle"
    /\ entry' = from
    /\ pc' = "verifyCalendar"
    /\ callLog' = callLog \o <<Call("databases.retrieve", "template", 0),
                               Call("databases.retrieve", "calendar", 0)>>
    /\ UNCHANGED <<templateDb, calendarDb, now, tzOffset, elapsedMs, templateTasks, tIdx,
                   events, eventTask, transformErrors, eIdx, results, errors, retry,
                   invoked, gw, exitCode,
                   retryLog, processEnv, probe, lastSettled>>

\* generateWeek is entered: startTime is taken, verifyConnection issues the
\* first databases.retrieve (notionService.js 163) and awaits it.
BeginGenerateWeek(from) ==
    /\ pc = "idle"
    /\ entry' = from
    /\ pc' = "verifyTemplate"
    /\ callLog' = Append(callLog, Call("databases.retrieve", "template", 0))
    /\ UNCHANGED <<templateDb, calendarDb, now, tzOffset, elapsedMs, templateTasks, tIdx,
                   events, eventTask, transformErrors, eIdx, results, errors, retry,
                   invoked, gw, exitCode,
                   retryLog, processEnv, probe, lastSettled>>

\* index.js: main() runs generateWeek
main == BeginGenerateWeek("index")

\* generateWeek.js executed directly: the block of lines 158-173
directExecution == BeginGenerateWeek("direct")

\* Variant of verifyConnection: the catch returns false instead of throwing.
verifyConnection_ReturnsFalse(outcome) == [threw |-> FALSE, value |-> outcome.ok]

\* verifyConnection after one of its two retrieves settled with outcome:
\* a rejection is caught at 175 and rethrown as a NotionError
verifyConnection(outcome) ==
    IF outcome.ok
      THEN [threw |-> FALSE, value |-> TRUE]
      ELSE [threw |-> TRUE,
            error |-> NotionError(<<"Verificacion de conexion fallida: ">>
                                    \o processNotionError(outcome.error),
                                  outcome.error)]

\* the retrieve of the template data set settles
verifyTemplateSettle ==
    /\ pc = "verifyTemplate"
    /\ \E outcome \in {Ok("database")} \cup Failures :
         /\ lastSettled' = outcome
         /\ LET v == verifyConnection(outcome) IN
            IF v.threw
              THEN /\ pc' = "settled"
                   /\ gw' = GenerateWeekCatch(v.error, elapsedMs)
                   /\ callLog' = Settled(callLog, outcome.ok)
              ELSE /\ pc' = "verifyCalendar"
                   /\ callLog' = Append(Settled(callLog, outcome.ok),
                                        Call("databases.retrieve", "calendar", 0))
                   /\ gw' = gw
    /\ UNCHANGED <<entry, templateDb, calendarDb, now, tzOffset, elapsedMs, templateTasks,
                   tIdx, events, eventTask, transformErrors, eIdx, results, errors,
                   retry, invoked, exitCode,
                   retryLog, processEnv, probe>>

\* the retrieve of the calendar data set settles; on success verifyConnection
\* returns and getTemplateTasks starts retryOperation around databases.query
verifyCalendarSettle ==
    /\ pc = "verifyCalendar"
    /\ \E outcome \in {Ok("database")} \cup Failures :
         /\ lastSettled' = outcome
         /\ LET v == verifyConnection(outcome) IN
            IF v.threw
              THEN /\ pc' = "settled"
                   /\ gw' = GenerateWeekCatch(v.error, elapsedMs)
                   /\ callLog' = Settled(callLog, outcome.ok)
                   /\ retry' = retry
              ELSE /\ pc' = "query"
                   /\ retry' = retryOperation(DefaultMaxRetries, DefaultDelay)
                   /\ callLog' = Append(Settled(callLog, outcome.ok),
                                        Call("databases.query", "template", 0))
                   /\ gw' = gw
    /\ UNCHANGED <<entry, templateDb, calendarDb, now, tzOffset, elapsedMs, templateTasks,
                   tIdx, events, eventTask, transformErrors, eIdx, results, errors,
                   invoked, exitCode,
                   retryLog, processEnv, probe>>

\* Variant of getTemplateTasks: an empty result is reported as an error.
getTemplateTasks_EmptyIsError(r) ==
    IF r.status = "returned" /\ Len(r.value.results) > 0
      THEN [threw |-> FALSE, value |-> SeqMap(parseTemplatePage, r.value.results)]
      ELSE [threw |-> TRUE,
            error |-> NotionError(<<"No se pudieron obtener las tareas de plantilla: ">>,
                                  r.value)]

\* getTemplateTasks once its retryOperation r is over: lines 32-35, or the
\* catch of 37-41
getTemplateTasks(r) ==
    IF r.status = "returned"
      THEN [threw |-> FALSE, value |-> SeqMap(parseTemplatePage, r.value.results)]
      ELSE [threw |-> TRUE,
            error |-> NotionError(<<"No se pudieron obtener las tareas de plantilla: ">>
                                    \o processNotionError(r.value),
                                  r.value)]

\* getTemplateTasks with its retryOperation moved to r, and generateWeek
\* after it (lines 75-91); log is callLog with the settled call marked
QueryContinue(r, elapsed, log) ==
    IF r.status \in {"returned", "threw"}
      THEN LET t == getTemplateTasks(r) IN
           /\ retry' = RetryIdle
           /\ callLog' = log
           /\ IF t.threw
                THEN /\ gw' = GenerateWeekCatch(t.error, elapsed)
                     /\ pc' = "settled"
                     /\ UNCHANGED <<templateTasks, tIdx>>
                ELSE IF Len(t.value) = 0
                THEN /\ gw' = Returned(EmptyResult)
                     /\ pc' = "settled"
                     /\ UNCHANGED <<templateTasks, tIdx>>
                ELSE /\ templateTasks' = t.value
                     /\ tIdx' = 1
                     /\ pc' = "transform"
                     /\ gw' = gw
      ELSE /\ retry' = r
           /\ callLog' = IF r.status = "calling"
                           THEN Append(log, Call("databases.query", "template", 0))
                           ELSE log
           /\ UNCHANGED <<pc, gw, templateTasks, tIdx>>

\* one attempt of databases.query settles
querySettle ==
    /\ pc = "query"
    /\ retry.status = "calling"
    /\ \E outcome \in {Ok([results |-> templateDb])} \cup Failures :
         /\ lastSettled' = outcome
         /\ QueryContinue(RetrySettle(retry, outcome), elapsedMs, Settled(callLog, outcome.ok))
    /\ UNCHANGED <<entry, templateDb, calendarDb, now, tzOffset, elapsedMs, events,
                   eventTask, transformErrors, eIdx, results, errors, invoked, exitCode,
                   retryLog, processEnv, probe>>

\* the delay between two attempts of databases.query is over
queryRetry ==
    /\ pc = "query"
    /\ retry.status = "waiting"
    /\ elapsedMs' = elapsedMs + retry.waits[Len(retry.waits)]
    /\ QueryContinue(RetryTimer(retry), elapsedMs', callLog)
    /\ UNCHANGED <<entry, templateDb, calendarDb, now, tzOffset, events,
                   eventTask, transformErrors, eIdx, results, errors, invoked, exitCode,
                   retryLog, processEnv, probe, lastSettled>>

\* Variant of transformTask: no try/catch around the transform, so a failing
\* task reaches the catch of generateWeek.
transformTask_NoIsolation ==
    /\ pc = "transform"
    /\ tIdx <= Len(templateTasks)
    /\ LET task == templateTasks[tIdx]
           t == transformTaskToEvent(task, now, tzOffset)
       IN IF t.threw
            THEN /\ gw' = GenerateWeekCatch(t.error, elapsedMs)
                 /\ pc' = "settled"
                 /\ UNCHANGED <<events, eventTask, transformErrors>>
            ELSE /\ events' = Append(events, t.value)
                 /\ eventTask' = Append(eventTask, tIdx)
                 /\ UNCHANGED <<transformErrors, pc, gw>>
    /\ tIdx' = tIdx + 1
    /\ UNCHANGED <<entry, templateDb, calendarDb, now, tzOffset, elapsedMs,
                   templateTasks, eIdx, results, errors, retry, callLog, invoked,
                   exitCode,
                   retryLog, processEnv, probe, lastSettled>>

\* one iteration of the loop of lines 94-101
transformTask ==
    /\ pc = "transform"
    /\ tIdx <= Len(templateTasks)
    /\ LET task == templateTasks[tIdx]
           t == transformTaskToEvent(task, now, tzOffset)
       IN IF t.threw
            THEN /\ transformErrors' = Append(transformErrors, [task |-> task, error |-> t.error])
                 /\ UNCHANGED <<events, eventTask>>
            ELSE /\ events' = Append(events, t.value)
                 /\ eventTask' = Append(eventTask, tIdx)
                 /\ UNCHANGED transformErrors
    /\ tIdx' = tIdx + 1
    /\ UNCHANGED <<pc, entry, templateDb, calendarDb, now, tzOffset, elapsedMs,
                   templateTasks, eIdx, results, errors, retry, callLog, invoked, gw,
                   exitCode,
                   retryLog, processEnv, probe, lastSettled>>

\* createCalendarEventsBatch at the top of its loop with k events done:
\* either createCalendarEvent(events[k+1]) starts its retryOperation around
\* pages.create, or the batch returns and generateWeek returns (113-133).
BatchLoop(k, res, errs, elapsed, log) ==
    /\ results' = res
    /\ errors' = errs
    /\ IF k < Len(events)
         THEN /\ eIdx' = k + 1
              /\ invoked' = Append(invoked, k + 1)
              /\ retry' = retryOperation(DefaultMaxRetries, DefaultDelay)
              /\ callLog' = Append(log, Call("pages.create", "calendar", k + 1))
              /\ pc' = "create"
              /\ gw' = gw
         ELSE /\ gw' = Returned(FinalResult([success |-> res, errors |-> errs], elapsed))
              /\ pc' = "settled"
              /\ retry' = RetryIdle
              /\ callLog' = log
              /\ UNCHANGED <<eIdx, invoked>>

\* Variant of beginBatch: the batch starts as soon as one task has been
\* transformed, the rest of the loop being skipped.
beginBatch_BeforeLoopEnds ==
    /\ pc = "transform"
    /\ tIdx > 1
    /\ BatchLoop(0, <<>>, <<>>, elapsedMs, callLog)
    /\ UNCHANGED <<entry, templateDb, calendarDb, now, tzOffset, elapsedMs, templateTasks,
                   tIdx, events, eventTask, transformErrors, exitCode,
                   retryLog, processEnv, probe, lastSettled>>

\* lines 103-111: the transform loop is over, createCalendarEventsBatch(events)
beginBatch ==
    /\ pc = "transform"
    /\ tIdx > Len(templateTasks)
    /\ BatchLoop(0, <<>>, <<>>, elapsedMs, callLog)
    /\ UNCHANGED <<entry, templateDb, calendarDb, now, tzOffset, elapsedMs, templateTasks,
                   tIdx, events, eventTask, transformErrors, exitCode,
                   retryLog, processEnv, probe, lastSettled>>

\* the row pages.create adds to the calendar data set (notionService.js 77-108)
CalendarRow(eventData) ==
    [Name |-> eventData.name,
     Date |-> [start |-> eventData.date.start,
               end |-> eventData.date.end,
               time_zone |-> OrString(eventData.date.time_zone, "America/Mexico_City")],
     Notes |-> OrString(eventData.notes, "")]

\* createCalendarEvent once its retryOperation r is over: the return of 112,
\* or the catch of 114-118
createCalendarEvent(r) ==
    IF r.status = "returned"
      THEN [threw |-> FALSE, value |-> r.value]
      ELSE [threw |-> TRUE,
            error |-> NotionError(<<"No se pudo crear el evento: ">>
                                    \o processNotionError(r.value),
                                  r.value)]

\* Variant of CreateContinue: no try/catch in the batch loop, so a write's
\* final failure leaves the loop and reaches the catch of generateWeek.
CreateContinue_StopsAtFailure(r, elapsed, log) ==
    IF r.status \in {"returned", "threw"}
      THEN LET c == createCalendarEvent(r) IN
           IF c.threw
             THEN /\ gw' = GenerateWeekCatch(c.error, elapsed)
                  /\ pc' = "settled"
                  /\ retry' = RetryIdle
                  /\ callLog' = log
                  /\ UNCHANGED <<eIdx, invoked, results, errors>>
             ELSE BatchLoop(eIdx, Append(results, c.value), errors, elapsed, log)
      ELSE /\ retry' = r
           /\ callLog' = IF r.status = "calling"
                           THEN Append(log, Call("pages.create", "calendar", eIdx))
                           ELSE log
           /\ UNCHANGED <<pc, gw, eIdx, invoked, results, errors>>

\* Variant of CreateContinue: the batch loop starts the event whose write
\* failed over again instead of recording the failure.
CreateContinue_ResubmitsFailed(r, elapsed, log) ==
    IF r.status \in {"returned", "threw"}
      THEN LET c == createCalendarEvent(r) IN
           IF c.threw
             THEN BatchLoop(eIdx - 1, results, errors, elapsed, log)
             ELSE BatchLoop(eIdx, Append(results, c.value), errors, elapsed, log)
      ELSE /\ retry' = r
           /\ callLog' = IF r.status = "calling"
                           THEN Append(log, Call("pages.create", "calendar", eIdx))
                           ELSE log
           /\ UNCHANGED <<pc, gw, eIdx, invoked, results, errors>>

\* the loop body of createCalendarEventsBatch (133-139) with the
\* retryOperation of createCalendarEvent moved to r
CreateContinue(r, elapsed, log) ==
    IF r.status \in {"returned", "threw"}
      THEN LET c == createCalendarEvent(r) IN
           IF c.threw
             THEN BatchLoop(eIdx, results,
                            Append(errors, [event |-> events[eIdx], error |-> c.error]),
                            elapsed, log)
             ELSE BatchLoop(eIdx, Append(results, c.value), errors, elapsed, log)
      ELSE /\ retry' = r
           /\ callLog' = IF r.status = "calling"
                           THEN Append(log, Call("pages.create", "calendar", eIdx))
                           ELSE log
           /\ UNCHANGED <<pc, gw, eIdx, invoked, results, errors>>

\* Variant of createSettle: the write replaces the rows of the calendar
\* data set instead of adding one.
createSettle_Overwrites ==
    /\ pc = "create"
    /\ retry.status = "calling"
    /\ \E outcome \in {Ok(CalendarRow(events[eIdx]))} \cup Failures :
         /\ lastSettled' = outcome
         /\ calendarDb' = IF outcome.ok THEN <<outcome.value>> ELSE calendarDb
         /\ CreateContinue(RetrySettle(retry, outcome), elapsedMs,
                           Settled(callLog, outcome.ok))
    /\ UNCHANGED <<entry, templateDb, now, tzOffset, elapsedMs, templateTasks, tIdx,
                   events, eventTask, transformErrors, exitCode,
                   retryLog, processEnv, probe>>

\* Variant of createSettle: a read-before-write check, the row being added
\* only if the calendar data set does not hold an equal one.
createSettle_SkipsExisting ==
    /\ pc = "create"
    /\ retry.status = "calling"
    /\ \E outcome \in {Ok(CalendarRow(events[eIdx]))} \cup Failures :
         /\ lastSettled' = outcome
         /\ calendarDb' = IF outcome.ok /\ \A k \in 1..Len(calendarDb) :
                                              calendarDb[k] # outcome.value
                            THEN Append(calendarDb, outcome.value)
                            ELSE calendarDb
         /\ CreateContinue(RetrySettle(retry, outcome), elapsedMs,
                           Settled(callLog, outcome.ok))
    /\ UNCHANGED <<entry, templateDb, now, tzOffset, elapsedMs, templateTasks, tIdx,
                   events, eventTask, transformErrors, exitCode,
                   retryLog, processEnv, probe>>

\* one attempt of pages.create settles; a successful one has added the row
createSettle ==
    /\ pc = "create"
    /\ retry.status = "calling"
    /\ \E outcome \in {Ok(CalendarRow(events[eIdx]))} \cup Failures :
         /\ lastSettled' = outcome
         /\ calendarDb' = IF outcome.ok THEN Append(calendarDb, outcome.value)
                          ELSE calendarDb
         /\ CreateContinue(RetrySettle(retry, outcome), elapsedMs,
                           Settled(callLog, outcome.ok))
    /\ UNCHANGED <<entry, templateDb, now, tzOffset, elapsedMs, templateTasks, tIdx,
                   events, eventTask, transformErrors, exitCode,
                   retryLog, processEnv, probe>>

\* the delay between two attempts of pages.create is over
createRetry ==
    /\ pc = "create"
    /\ retry.status = "waiting"
    /\ elapsedMs' = elapsedMs + retry.waits[Len(retry.waits)]
    /\ CreateContinue(RetryTimer(retry), elapsedMs', callLog)
    /\ UNCHANGED <<entry, templateDb, calendarDb, now, tzOffset, templateTasks, tIdx,
                   events, eventTask, transformErrors, exitCode,
                   retryLog, processEnv, probe, lastSettled>>

\* index.js main after `await generateWeek()`
mainContinuation ==
    /\ pc = "settled"
    /\ entry = "index"
    /\ exitCode' = mainExit(gw)
    /\ pc' = "exited"
    /\ UNCHANGED <<entry, templateDb, calendarDb, now, tzOffset, elapsedMs, templateTasks,
                   tIdx, events, eventTask, transformErrors, eIdx, results, errors, retry,
                   callLog, invoked, gw, retryLog, processEnv, probe, lastSettled>>

\* the .then / .catch of the direct execution block
directContinuation ==
    /\ pc = "settled"
    /\ entry = "direct"
    /\ exitCode' = directExit(gw)
    /\ pc' = "exited"
    /\ UNCHANGED <<entry, templateDb, calendarDb, now, tzOffset, elapsedMs, templateTasks,
                   tIdx, events, eventTask, transformErrors, eIdx, results, errors, retry,
                   callLog, invoked, gw, retryLog, processEnv, probe, lastSettled>>

Next ==
    \/ loadModules
    \/ main
    \/ directExecution
    \/ verifyTemplateSettle
    \/ verifyCalendarSettle
    \/ querySettle
    \/ queryRetry
    \/ transformTask
    \/ beginBatch
    \/ createSettle
    \/ createRetry
    \/ mainContinuation
    \/ directContinuation

Spec == Init /\ [][Next]_vars

\* Templates of up to MaxTasks rows, each a valid row or one whose
\* transform fails; the environment is complete.
LiveInit ==
    /\ calendarDb = <<>>
    /\ InitProcess
    /\ processEnv = FullEnvironment
    /\ \A k \in 1..Len(templateDb) :
          templateDb[k] \in {[id |-> k] @@ PageStandup, [id |-> k] @@ PageFunday}

\* Every call of the client eventually resolves or rejects, every timer
\* fires and the event loop runs every continuation that is ready: whatever
\* step is enabled is eventually taken.
LiveSpec == LiveInit /\ [][Next]_vars /\ WF_vars(Next)

\* --------------------------------------- a run on a calendar that has rows

\* Rows the calendar data set holds before the run: the Standup event an
\* earlier run created for the week before, and a row entered by hand.
ExistingCalendar ==
    <<[Name |-> "Standup",
       Date |-> [start |-> [day |-> 0, hour |-> 8, minute |-> 0],
                 end |-> [day |-> 0, hour |-> 8, minute |-> 30],
                 time_zone |-> "America/Bogota"],
       Notes |-> "daily"],
      [Name |-> "Dentist",
       Date |-> [start |-> [day |-> 8, hour |-> 15, minute |-> 0],
                 end |-> [day |-> 8, hour |-> 16, minute |-> 0],
                 time_zone |-> "America/Bogota"],
       Notes |-> ""]>>

ExistingInit == calendarDb = ExistingCalendar /\ InitProcess

ExistingSpec == ExistingInit /\ [][Next]_vars

\* ------------------------------------- two runs over the same template

\* Templates of the two-run specification: two valid rows, a valid and an
\* invalid one, a single valid row.
TwoRunTemplates ==
    {<<[id |-> 1] @@ PageStandup, [id |-> 2] @@ PageGym>>,
     <<[id |-> 1] @@ PageStandup, [id |-> 2] @@ PageFunday>>,
     <<[id |-> 1] @@ PageGym>>}

\* The rows a complete run of the program writes for the template when all
\* its calls succeed: one per task whose transform succeeds, in order.
RowsOfRun ==
    LET tasks == SeqMap(parseTemplatePage, templateDb)
        valid == SelectSeq(tasks, LAMBDA t : ~transformTaskToEvent(t, now, tzOffset).threw)
    IN [k \in 1..Len(valid) |->
           CalendarRow(transformTaskToEvent(valid[k], now, tzOffset).value)]

\* the rows of the calendar data set that the other run has written so far
\* (results holds the pages this run created)
OtherRunWritten == Len(calendarDb) - Len(results)

TwoRunInit ==
    /\ calendarDb = <<>>
    /\ InitProcess
    /\ processEnv = FullEnvironment
    /\ templateDb \in TwoRunTemplates

\* Another process runs the same program over the same template in the same
\* week, before, during or after this run, all its calls succeeding: one of
\* its pages.create calls adds its next row. Nothing in createCalendarEvent
\* or generateWeek reads the calendar data set or takes a lock, so the other
\* run is present here through its writes only.
otherRunCreate ==
    /\ OtherRunWritten < Len(RowsOfRun)
    /\ calendarDb' = Append(calendarDb, RowsOfRun[OtherRunWritten + 1])
    /\ UNCHANGED <<pc, entry, templateDb, now, tzOffset, elapsedMs, templateTasks, tIdx,
                   events, eventTask, transformErrors, eIdx, results, errors, retry,
                   callLog, invoked, gw, exitCode, retryLog, processEnv, probe,
                   lastSettled>>

TwoRunNext == Next \/ otherRunCreate

TwoRunSpec == TwoRunInit /\ [][TwoRunNext]_vars

\* ------------------------------------------- retryOperation on its own

\* What fn() can resolve with in RetrySpec.
RetryValues == {[id |-> "page-1"], [id |-> "page-2"]}

\* retryOperation(fn, maxRetries, delay) called with every maxRetries >= 1 up
\* to the bound, fn free to resolve or reject at each attempt.
RetryInit ==
    /\ pc = "retryHarness"
    /\ processEnv = FullEnvironment
    /\ probe = Undefined
    /\ entry = "none"
    /\ templateDb = <<>>
    /\ calendarDb = <<>>
    /\ now \in ReferenceInstants
    /\ tzOffset \in LocalOffsets
    /\ elapsedMs = 0
    /\ templateTasks = <<>>
    /\ tIdx = 0
    /\ events = <<>>
    /\ eventTask = <<>>
    /\ transformErrors = <<>>
    /\ eIdx = 0
    /\ results = <<>>
    /\ errors = <<>>
    /\ \E m \in 1..MaxAttemptsBound : retry = retryOperation(m, DefaultDelay)
    /\ retryLog = <<>>
    /\ callLog = <<>>
    /\ invoked = <<>>
    /\ gw = Pending
    /\ exitCode = -1
    /\ lastSettled = Undefined

\* fn() settles
retrySettle ==
    /\ pc = "retryHarness"
    /\ retry.status = "calling"
    /\ \E outcome \in {Ok(v) : v \in RetryValues} \cup Failures :
         /\ lastSettled' = outcome
         /\ retry' = RetrySettle(retry, outcome)
         /\ retryLog' = Append(retryLog, outcome)
    /\ UNCHANGED <<pc, entry, templateDb, calendarDb, now, tzOffset, elapsedMs,
                   templateTasks, tIdx, events, eventTask, transformErrors, eIdx,
                   results, errors, callLog, invoked, gw, exitCode, processEnv, probe>>

\* the setTimeout of line 126 fires
retryTimer ==
    /\ pc = "retryHarness"
    /\ retry.status = "waiting"
    /\ elapsedMs' = elapsedMs + retry.waits[Len(retry.waits)]
    /\ retry' = RetryTimer(retry)
    /\ UNCHANGED <<pc, entry, templateDb, calendarDb, now, tzOffset,
                   templateTasks, tIdx, events, eventTask, transformErrors, eIdx,
                   results, errors, callLog, invoked, gw, exitCode,
                   retryLog, processEnv, probe, lastSettled>>

RetryNext == retrySettle \/ retryTimer

RetrySpec == RetryInit /\ [][RetryNext]_vars

\* ------------------------------------ the date helpers on one template row

\* Day names a template row can carry: the 14 listed ones, and others.
DayInputs ==
    DOMAIN DayTable \cup {"", "monday", "LUNES", "Miercoles", "Funday", "constructor",
                          "toString"}

\* Time texts a template row can carry.
TimeInputs ==
    {<<"0", "9", ":", "0", "0">>, <<"0", "0", ":", "0", "0">>,
     <<"2", "3", ":", "4", "5">>, <<"2", "5", ":", "0", "0">>,
     <<"1", "2", ":", "7", "5">>, <<"9", ":", "3", "0">>, <<":", "3", "0">>,
     <<"9">>, <<>>, <<"a", "b", ":", "c", "d">>}

\* Duration properties a template row can carry.
DurationInputs == {Absent, [number |-> 30], [number |-> 0], [number |-> -30]}

\* Every day of one week (the second one after the epoch), at the start, in
\* the middle and in the last minute of the UTC day.
DateReferenceInstants ==
    {(7 + d) * MinutesPerDay + minute : d \in 0..6, minute \in {0, 600, MinutesPerDay - 1}}

\* Local offsets of the process: UTC-5, UTC, UTC+1.
DateOffsets == {-300, 0, 60}

\* TIMEZONE unset, or set to a zone name.
DateEnvironments ==
    {FullEnvironment} \cup
    {FullEnvironment @@ ("TIMEZONE" :> z) : z \in {"America/Bogota", "America/Mexico_City"}}

DateRow(day, time, duration) ==
    [id |-> 1] @@ Page(Prop("Standup"), [name |-> day], Prop(time), duration, Absent)

\* Rows in which the name, the day or the time may be missing.
IncompleteRows ==
    {[id |-> 1] @@ Page(name, day, time, [number |-> 30], Absent) :
        name \in {Absent, Prop("Standup")},
        day \in {Absent, [name |-> "Monday"]},
        time \in {Absent, Prop(<<"0", "9", ":", "0", "0">>)}}

\* One template row: every day name at every reference instant with a plain
\* time, every time text and duration on a Sunday for two day names, and the
\* rows with missing fields.
DateInit ==
    /\ pc = "dateHarness"
    /\ entry = "none"
    /\ \/ /\ now \in DateReferenceInstants
          /\ tzOffset \in DateOffsets
          /\ processEnv = FullEnvironment
          /\ templateDb \in {<<DateRow(day, <<"0", "9", ":", "0", "0">>, [number |-> 30])>> :
                                day \in DayInputs}
       \/ /\ now = 13 * MinutesPerDay + 600
          /\ tzOffset \in DateOffsets
          /\ processEnv \in DateEnvironments
          /\ templateDb \in {<<DateRow(day, time, duration)>> :
                                day \in {"Monday", "Domingo"}, time \in TimeInputs,
                                duration \in DurationInputs}
       \/ /\ now = 13 * MinutesPerDay + 600
          /\ tzOffset \in DateOffsets
          /\ processEnv = FullEnvironment
          /\ templateDb \in {<<row>> : row \in IncompleteRows}
    /\ calendarDb = <<>>
    /\ elapsedMs = 0
    /\ templateTasks = <<>>
    /\ tIdx = 0
    /\ events = <<>>
    /\ eventTask = <<>>
    /\ transformErrors = <<>>
    /\ eIdx = 0
    /\ results = <<>>
    /\ errors = <<>>
    /\ retry = RetryIdle
    /\ retryLog = <<>>
    /\ callLog = <<>>
    /\ invoked = <<>>
    /\ gw = Pending
    /\ exitCode = -1
    /\ lastSettled = Undefined
    /\ probe = Undefined

\* The rows come back from getTemplateTasks (generateWeek.js line 75), and
\* getNextWeekDayDate is called with the day of the row.
probeDay ==
    /\ pc = "dateHarness"
    /\ templateTasks' = SeqMap(parseTemplatePage, templateDb)
    /\ probe' = getNextWeekDayDate(templateTasks'[1].day, now, tzOffset)
    /\ tIdx' = 1
    /\ pc' = "transform"
    /\ UNCHANGED <<entry, templateDb, calendarDb, now, tzOffset, elapsedMs, events,
                   eventTask, transformErrors, eIdx, results, errors, retry, callLog,
                   invoked, gw, exitCode, retryLog, processEnv, lastSettled>>

\* then the transform loop and the first call of the batch, as in a run
DateNext == probeDay \/ transformTask \/ beginBatch

DateSpec == DateInit /\ [][DateNext]_vars

\* ----------------------------- the transform loop while the clock advances

\* Instants at which the transform loop starts: a Sunday at 23:59 UTC and at
\* 23:58, and a Wednesday at noon.
ClockStarts == {13 * MinutesPerDay + 1439, 13 * MinutesPerDay + 1438, 9 * MinutesPerDay + 720}

\* Two rows with a plain time, for a few day names.
ClockTemplates ==
    {<<[id |-> 1] @@ Page(Prop("Standup"), [name |-> d1], Prop(<<"0", "9", ":", "0", "0">>),
                          [number |-> 30], Absent),
       [id |-> 2] @@ Page(Prop("Gym"), [name |-> d2], Prop(<<"1", "8", ":", "3", "0">>),
                          Absent, Absent)>> :
        d1 \in {"Monday", "Wednesday", "Domingo"}, d2 \in {"Lunes", "Friday", "Sunday"}}

\* generateWeek at line 91: the tasks have been fetched, the loop starts.
\* elapsedMs holds the minutes the clock advanced since then.
ClockInit ==
    /\ pc = "transform"
    /\ entry = "index"
    /\ processEnv = FullEnvironment
    /\ templateDb \in ClockTemplates
    /\ templateTasks = SeqMap(parseTemplatePage, templateDb)
    /\ tIdx = 1
    /\ now \in ClockStarts
    /\ tzOffset \in DateOffsets
    /\ calendarDb = <<>>
    /\ elapsedMs = 0
    /\ events = <<>>
    /\ eventTask = <<>>
    /\ transformErrors = <<>>
    /\ eIdx = 0
    /\ results = <<>>
    /\ errors = <<>>
    /\ retry = RetryIdle
    /\ retryLog = <<>>
    /\ callLog = <<>>
    /\ invoked = <<>>
    /\ gw = Pending
    /\ exitCode = -1
    /\ probe = Undefined
    /\ lastSettled = Undefined

\* Time passes between two statements: the next new Date() (getNextWeekStart,
\* part_001 53, called from every transform) reads a later instant.
clockAdvances ==
    /\ pc = "transform"
    /\ elapsedMs < MaxClockAdvance
    /\ now' = now + 1
    /\ elapsedMs' = elapsedMs + 1
    /\ UNCHANGED <<pc, entry, templateDb, calendarDb, tzOffset, templateTasks, tIdx,
                   events, eventTask, transformErrors, eIdx, results, errors, retry,
                   callLog, invoked, gw, exitCode, retryLog, processEnv, probe,
                   lastSettled>>

ClockNext == clockAdvances \/ transformTask \/ beginBatch

ClockSpec == ClockInit /\ [][ClockNext]_vars

\* ------------------------------------------------------------ properties

\* generateWeek's promise has settled
RunOver == pc \in {"settled", "exited"}

\* the batch ran: the template query returned rows and the run is over
BatchRan == RunOver /\ templateTasks # <<>>

\* one of the two existence checks of verifyConnection was rejected
CheckFailed ==
    \E k \in 1..Len(callLog) :
        callLog[k].op = "databases.retrieve" /\ callLog[k].result = "failed"

QueryCalls == SelectSeq(callLog, LAMBDA c : c.op = "databases.query")

\* the template query resolved
QuerySucceeded == \E k \in 1..Len(QueryCalls) : QueryCalls[k].result = "ok"

\* getTemplateTasks gave up: the run is past the query and its last attempt failed
QueryFailed ==
    /\ RunOver
    /\ QueryCalls # <<>>
    /\ QueryCalls[Len(QueryCalls)].result = "failed"

\* how the pages.create attempts for event j settled, in order
Attempts(j) ==
    LET cs == SelectSeq(callLog, LAMBDA c : c.op = "pages.create" /\ c.event = j)
    IN [k \in 1..Len(cs) |-> cs[k].result]

\* event j was written / the write of event j failed for good
Written(j) == Attempts(j) # <<>> /\ Attempts(j)[Len(Attempts(j))] = "ok"
FinallyFailed(j) ==
    /\ Attempts(j) # <<>>
    /\ Attempts(j)[Len(Attempts(j))] = "failed"
    /\ (RunOver \/ j < eIdx)

EventIndexes == [k \in 1..Len(events) |-> k]

\* the events whose write failed for good, in batch order
FailedEvents == SelectSeq(EventIndexes, FinallyFailed)

\* how often createCalendarEvent was invoked for the event of task k
InvocationsForTask(k) ==
    Cardinality({n \in 1..Len(invoked) : eventTask[invoked[n]] = k})

TransformFails(task) == transformTaskToEvent(task, now, tzOffset).threw

\* C1: if either existence check of verifyConnection fails, the run is
\* aborted: generateWeek settles without a success result, and neither the
\* template query nor any page-create call is ever issued.
C1_FailedCheckAborts ==
    CheckFailed =>
        /\ RunOver
        /\ gw.kind # "pending"
        /\ ~(gw.kind = "returned" /\ gw.value.success)
        /\ \A k \in 1..Len(callLog) : callLog[k].op = "databases.retrieve"
        /\ invoked = <<>>
        /\ calendarDb = <<>>

\* the first check passed, the second was rejected, and the process has ended
C1_Witness ==
    /\ pc = "exited"
    /\ Len(callLog) = 2
    /\ callLog[1].result = "ok"
    /\ callLog[2].result = "failed"
    /\ templateDb # <<>>

\* C2: a task whose transform fails (an unrecognized day such as "Funday",
\* or a time that gives no valid date) is excluded from writing and does not
\* abort the batch: once the run is over, createCalendarEvent has been invoked
\* for every task whose transform succeeds, wherever the failing task stands
\* in the list, and never for a failing one.
C2_TransformFailureIsolated ==
    BatchRan =>
        /\ gw.kind = "returned"
        /\ \A k \in 1..Len(templateTasks) :
             /\ TransformFails(templateTasks[k]) => InvocationsForTask(k) = 0
             /\ ~TransformFails(templateTasks[k]) => InvocationsForTask(k) >= 1
             /\ templateTasks[k].day = "Funday" => TransformFails(templateTasks[k])

\* "Funday" comes first and a valid task after it was still written
C2_Witness ==
    /\ BatchRan
    /\ Len(templateTasks) = 2
    /\ templateTasks[1].day = "Funday"
    /\ ~TransformFails(templateTasks[2])
    /\ InvocationsForTask(2) = 1
    /\ Len(calendarDb) = 1

\* C3 (as claimed): every per-task error of a run, transform failure or final
\* write failure, is in the result generateWeek returns: success is true,
\* failed is at least the number of such tasks and errors has one entry for
\* each of them.
C3_AllPerTaskErrorsReported ==
    BatchRan =>
        LET n == Len(transformErrors) + Len(FailedEvents) IN
        /\ gw.kind = "returned"
        /\ gw.value.success
        /\ gw.value.failed >= n
        /\ Len(gw.value.errors) = n

\* C4: in createCalendarEventsBatch a write that fails after its retries is
\* recorded in the error list and does not stop the loop: createCalendarEvent
\* is invoked for every event of the batch, in order, whatever the pattern of
\* write failures, and errors holds exactly the events whose write failed.
C4_BatchContinuesAfterFailure ==
    /\ pc = "create" => invoked = [k \in 1..eIdx |-> k]
    /\ BatchRan =>
         /\ invoked = EventIndexes
         /\ Len(errors) = Len(FailedEvents)
         /\ \A n \in 1..Len(FailedEvents) : errors[n].event = events[FailedEvents[n]]
         /\ Len(results) + Len(errors) = Len(events)

\* the first event's write failed for good and the second was still written
C4_Witness ==
    /\ BatchRan
    /\ Len(events) = 2
    /\ FinallyFailed(1)
    /\ Written(2)
    /\ Len(errors) = 1

AllFailed(log) == \A k \in 1..Len(log) : ~log[k].ok

\* C5: retryOperation with maxRetries >= 1 invokes the operation at least once
\* and at most maxRetries times; it stops at the first attempt that succeeds
\* and returns that attempt's value; and after a failed attempt it goes on
\* whatever the error is: it throws only when maxRetries attempts have failed.
C5_RetryAttempts ==
    pc = "retryHarness" =>
        /\ retry.calls >= 1
        /\ retry.calls <= retry.maxRetries
        /\ retry.status = "calling" =>
             Len(retryLog) = retry.calls - 1 /\ AllFailed(retryLog)
        /\ retry.status = "waiting" =>
             /\ Len(retryLog) = retry.calls
             /\ AllFailed(retryLog)
             /\ retry.calls < retry.maxRetries
        /\ retry.status = "returned" =>
             /\ Len(retryLog) = retry.calls
             /\ retryLog[retry.calls].ok
             /\ AllFailed(SubSeq(retryLog, 1, retry.calls - 1))
             /\ retry.value = retryLog[retry.calls].value
        /\ retry.status = "threw" =>
             /\ Len(retryLog) = retry.maxRetries
             /\ retry.calls = retry.maxRetries
             /\ AllFailed(retryLog)

\* a validation error, then an unauthorized error, then success at the third
\* and last attempt
C5_Witness ==
    /\ pc = "retryHarness"
    /\ retry.maxRetries = DefaultMaxRetries
    /\ retry.status = "returned"
    /\ retry.calls = 3
    /\ retryLog[1].error.code = "validation_error"
    /\ retryLog[2].error.code = "unauthorized"

\* the three pages.create attempts of event j: two rejected, the third resolved
FailedTwiceThenOk(j) == Attempts(j) = <<"failed", "failed", "ok">>

\* all three pages.create attempts of event j were rejected
FailedThrice(j) == Attempts(j) = <<"failed", "failed", "failed">>

WrittenEvents == SelectSeq(EventIndexes, Written)

\* C6: an event whose page-create call fails on its first two attempts and
\* succeeds on the third is counted as created and not as failed: the result's
\* created count is the number of written events, this one among them, its
\* failed count and errors list cover only the events whose write failed for
\* good, and the event's row is in the calendar.
C6_SucceedsOnThirdAttempt ==
    BatchRan =>
        \A j \in 1..Len(events) :
            FailedTwiceThenOk(j) =>
                /\ Written(j) /\ ~FinallyFailed(j)
                /\ gw.kind = "returned"
                /\ gw.value.success
                /\ gw.value.created = Len(WrittenEvents)
                /\ gw.value.failed = Len(FailedEvents)
                /\ Len(gw.value.errors) = Len(FailedEvents)
                /\ \A n \in 1..Len(FailedEvents) :
                       gw.value.errors[n].event = events[FailedEvents[n]].name
                /\ \E n \in 1..Len(calendarDb) : calendarDb[n] = CalendarRow(events[j])

\* a single event, written at its third attempt
C6_Witness ==
    /\ BatchRan
    /\ Len(events) = 1
    /\ FailedTwiceThenOk(1)
    /\ gw.value.created = 1
    /\ gw.value.failed = 0

ThriceFailedEvents == SelectSeq(EventIndexes, FailedThrice)

\* the codes processNotionError answers with a fixed text
FixedTextCodes == {"object_not_found", "unauthorized", "restricted_resource"}

\* C7 (as claimed): when the page-create call of an event fails on all 3
\* attempts, the result has success=true, the event is counted once in failed,
\* and errors holds exactly one entry for it, with the event's name and a
\* message that contains the underlying failure's message.
C7_MessageContainsUnderlying ==
    BatchRan =>
        /\ gw.kind = "returned"
        /\ gw.value.success
        /\ gw.value.failed = Len(ThriceFailedEvents)
        /\ Len(gw.value.errors) = Len(ThriceFailedEvents)
        /\ \A n \in 1..Len(ThriceFailedEvents) :
               /\ gw.value.errors[n].event = events[ThriceFailedEvents[n]].name
               /\ Contains(gw.value.errors[n].error, errors[n].error.originalError.message)

\* C7 (amended): when the page-create call of an event fails on all 3
\* attempts, the result has success=true, the event is counted once in failed,
\* and errors holds exactly one entry for it, with the event's name and the
\* text "No se pudo crear el evento: " followed by processNotionError's text
\* for the last failure; that text contains the failure's own message unless
\* the failure's code is object_not_found, unauthorized or
\* restricted_resource, for which it is a fixed text without the message.
C7_FinalFailureReported ==
    BatchRan =>
        /\ gw.kind = "returned"
        /\ gw.value.success
        /\ gw.value.failed = Len(ThriceFailedEvents)
        /\ Len(gw.value.errors) = Len(ThriceFailedEvents)
        /\ \A n \in 1..Len(ThriceFailedEvents) :
               LET reported == gw.value.errors[n]
                   cause == errors[n].error.originalError
               IN /\ reported.event = events[ThriceFailedEvents[n]].name
                  /\ reported.error[1] = "No se pudo crear el evento: "
                  /\ cause.code \notin FixedTextCodes =>
                         Contains(reported.error, cause.message)
                  /\ cause.code \in FixedTextCodes =>
                         /\ Len(reported.error) = 2
                         /\ ~Contains(reported.error, cause.message)

\* a single event whose three attempts were rejected, the last with a
\* validation error
C7_Witness ==
    /\ BatchRan
    /\ Len(events) = 1
    /\ FailedThrice(1)
    /\ gw.value.failed = 1
    /\ Len(gw.value.errors) = 1
    /\ errors[1].error.originalError.code = "validation_error"

\* C8: when the template query returns zero rows, getTemplateTasks returns an
\* empty list, not an error, and generateWeek completes with success=true,
\* created=0 and failed=0 without any page-create call.
C8_EmptyTemplate ==
    (RunOver /\ QuerySucceeded /\ templateDb = <<>>) =>
        /\ gw.kind = "returned"
        /\ gw.value.success
        /\ gw.value.created = 0
        /\ gw.value.failed = 0
        /\ \A k \in 1..Len(callLog) : callLog[k].op # "pages.create"
        /\ invoked = <<>>
        /\ calendarDb = <<>>

\* the query of an empty template set resolved at its second attempt and the
\* process has ended
C8_Witness ==
    /\ pc = "exited"
    /\ templateDb = <<>>
    /\ QuerySucceeded
    /\ Len(QueryCalls) = 2
    /\ gw = Returned(EmptyResult)

\* the run was aborted: a connectivity check failed, or the template fetch
\* failed after its retries
FatalAbort == CheckFailed \/ QueryFailed

\* C9 (as claimed): on a fatal error generateWeek returns a top-level failure
\* result to its caller: success=false, created=0, failed=0 and the error
\* message.
C9_FatalReturnsFailureResult ==
    (RunOver /\ FatalAbort) =>
        /\ gw.kind = "returned"
        /\ gw.value.success = FALSE
        /\ gw.value.created = 0
        /\ gw.value.failed = 0
        /\ "error" \in DOMAIN gw.value

\* C10: from both entry points the exit code is 0 for every run that reaches
\* Done with success, whatever the number of events that failed to transform
\* or to be written, and non-zero for every run aborted by a failed
\* connectivity check or a failed template fetch.
C10_ExitCode ==
    pc = "exited" =>
        /\ entry \in {"index", "direct"}
        /\ FatalAbort => exitCode # 0
        /\ ~FatalAbort =>
               /\ gw.kind = "returned"
               /\ gw.value.success
               /\ exitCode = 0

\* index.js ended with code 0 after a run in which one task failed to
\* transform and the only event failed to be written
C10_Witness ==
    /\ pc = "exited"
    /\ entry = "index"
    /\ exitCode = 0
    /\ Len(transformErrors) = 1
    /\ Len(errors) = 1
    /\ results = <<>>

\* ----------------------------------------------------------- C11 .. C20

\* getNextWeekDayDate has been called with the day of the row
DayProbed == pc # "dateHarness" /\ probe # Undefined

\* the day name and the time text of the row
RowDay == templateTasks[1].day
RowTime == templateTasks[1].time

\* C11: for each of the seven weekdays and every reference day,
\* getNextWeekDayDate returns a date inside the seven-day window that starts
\* on the Monday after the Monday-to-Sunday week containing the reference day,
\* and the day of the week of that date is the requested one; a Sunday
\* reference gives the Monday to Sunday that follow it.
C11_NextWeekWindow ==
    (DayProbed /\ RowDay \in DOMAIN DayTable) =>
        LET refDay == LocalDay(now, tzOffset)
            nextMonday == refDay - (refDay % 7) + 7
            requested == (DayTable[RowDay] + 6) % 7
        IN /\ ~probe.threw
           /\ probe.value.valid
           /\ LocalDay(probe.value.t, tzOffset) \in nextMonday..(nextMonday + 6)
           /\ LocalDay(probe.value.t, tzOffset) % 7 = requested
           /\ LocalMinuteOfDay(probe.value.t, tzOffset) = 0

\* on a Sunday, "Domingo" gives the Sunday one week later
C11_Witness ==
    /\ DayProbed
    /\ RowDay = "Domingo"
    /\ LocalDay(now, tzOffset) % 7 = 6
    /\ ~probe.threw
    /\ LocalDay(probe.value.t, tzOffset) = LocalDay(now, tzOffset) + 7

\* the instant (minutes) an ISO string of formatForNotion denotes
IsoMinutes(iso) == iso.day * MinutesPerDay + iso.hour * 60 + iso.minute

\* the events that were passed to a pages.create call
SubmittedEvents == {callLog[j].event : j \in {i \in 1..Len(callLog) : callLog[i].op = "pages.create"}}

\* the template row event k was made from
RowOfEvent(k) == templateDb[eventTask[k]]

\* the Duration of a template row in minutes, 60 when the row has none
RowDuration(row) == IF row.Duration = Absent THEN 60 ELSE row.Duration.number

\* C12: for every event passed to a page-create call, the end is strictly
\* after the start and end minus start is the duration of the template row in
\* minutes (60 when the row has no Duration), whatever Duration the row holds,
\* zero and negative values included.
C12_EndAfterStart ==
    \A k \in SubmittedEvents :
        LET start == IsoMinutes(events[k].date.start)
            end == IsoMinutes(events[k].date.end)
        IN /\ end > start
           /\ end - start = RowDuration(RowOfEvent(k))

\* a time text of the form HH:mm with the hour in 0..23 and the minute in 0..59
WellFormedTime(s) ==
    /\ Len(s) = 5
    /\ s[3] = ":"
    /\ \A k \in {1, 2, 4, 5} : IsDigit(s[k])
    /\ DigitValue(s[1]) * 10 + DigitValue(s[2]) <= 23
    /\ DigitValue(s[4]) * 10 + DigitValue(s[5]) <= 59

\* the transform loop of generateWeek is over
TransformOver == templateTasks # <<>> /\ tIdx > Len(templateTasks)

\* task k was recorded as a per-task failure and gave no event
RecordedAsFailure(k) ==
    /\ \E j \in 1..Len(transformErrors) : transformErrors[j].task = templateTasks[k]
    /\ \A j \in 1..Len(eventTask) : eventTask[j] # k

\* C13: a time text that is not of the form HH:mm with the hour in 0..23 and
\* the minute in 0..59 ("25:00", "12:75", "9", "") makes the transform of the
\* row fail: the row is recorded as a per-task failure and is never passed to
\* a page-create call.
C13_BadTimeFails ==
    TransformOver =>
        \A k \in 1..Len(templateTasks) :
            ~WellFormedTime(templateTasks[k].time) => RecordedAsFailure(k)

\* the seven weekdays in English and in Spanish
WeekdayPairs ==
    {<<"Monday", "Lunes">>, <<"Tuesday", "Martes">>, <<"Wednesday", "Miércoles">>,
     <<"Thursday", "Jueves">>, <<"Friday", "Viernes">>, <<"Saturday", "Sábado">>,
     <<"Sunday", "Domingo">>}

WeekdayTokens == {pair[1] : pair \in WeekdayPairs} \cup {pair[2] : pair \in WeekdayPairs}

\* C14: getNextWeekDayDate accepts exactly the 14 day tokens (seven English
\* names, seven Spanish names); an English token and its Spanish counterpart
\* give the same date; every other string (another case, the empty string, an
\* unknown name) raises an error instead of giving a date.
C14_DayTokens ==
    DayProbed =>
        /\ RowDay \in WeekdayTokens =>
               /\ ~probe.threw
               /\ probe.value.valid
               /\ \A pair \in WeekdayPairs :
                      RowDay \in {pair[1], pair[2]} =>
                          /\ probe = getNextWeekDayDate(pair[1], now, tzOffset)
                          /\ probe = getNextWeekDayDate(pair[2], now, tzOffset)
        /\ RowDay \notin WeekdayTokens => probe.threw

\* the offset from UTC (minutes) of the zones a time_zone label can name;
\* none of the three observes daylight saving
ZoneOffset(label) ==
    IF label = "America/Bogota" THEN -300
    ELSE IF label = "America/Mexico_City" THEN -360
    ELSE 0

\* the hour and minute (as a minute of the day) a well-formed time text names
WallClock(s) ==
    (DigitValue(s[1]) * 10 + DigitValue(s[2])) * 60 + DigitValue(s[4]) * 10 + DigitValue(s[5])

\* the minute of the day an ISO string shows once its UTC digits are
\* displayed in the zone of the label
ShownIn(iso, label) == (iso.hour * 60 + iso.minute + ZoneOffset(label)) % MinutesPerDay

\* C15: round trip of the date-range packaging: for every wall-clock hour and
\* minute and every time zone of the process, the start string produced by
\* createNotionDateObject, read as UTC digits and displayed in the zone of the
\* event's time_zone label, shows the wall-clock hour and minute that were
\* given, and the end string shows that time plus the duration.
C15_RoundTrip ==
    \A k \in 1..Len(events) :
        LET row == RowOfEvent(k)
            wall == WallClock(row.Time.plain_text)
            date == events[k].date
        IN WellFormedTime(row.Time.plain_text) =>
               /\ ShownIn(date.start, date.time_zone) = wall
               /\ ShownIn(date.end, date.time_zone)
                      = (wall + templateTasks[eventTask[k]].duration) % MinutesPerDay

\* C16: within one run createCalendarEvent is invoked exactly once for each
\* event whose transform succeeded and never for a task whose transform
\* failed; no event is submitted twice, whatever the retries of its write.
C16_OncePerEvent ==
    /\ \A i, j \in 1..Len(invoked) : invoked[i] = invoked[j] => i = j
    /\ \A i \in 1..Len(invoked) : invoked[i] \in 1..Len(events)
    /\ \A k \in 1..Len(templateTasks) :
          LET n == InvocationsForTask(k)
              fails == TransformFails(templateTasks[k])
          IN /\ n <= 1
             /\ fails => n = 0
             /\ (RunOver /\ ~fails) => n = 1

\* the write of the first event took three attempts and failed, the second
\* event was written, and each was submitted once
C16_Witness ==
    /\ BatchRan
    /\ Len(events) = 2
    /\ Attempts(1) = <<"failed", "failed", "failed">>
    /\ Written(2)
    /\ invoked = <<1, 2>>

\* the operations of the Notion client that only read, and the one that adds
ReadOps == {"databases.retrieve", "databases.query"}
AddOps == {"pages.create"}

\* C17: a run never changes or deletes data that exists: the only calls it
\* issues are database retrieve, the template query and page create; the
\* rows the calendar data set held before a step are still there after it,
\* unchanged and in place (rows are only added); the template data set is
\* never written.
C17_NoMutation ==
    [][/\ templateDb' = templateDb
       /\ Len(calendarDb') >= Len(calendarDb)
       /\ SubSeq(calendarDb', 1, Len(calendarDb)) = calendarDb
       /\ \A k \in 1..Len(callLog') :
              /\ callLog'[k].op \in ReadOps \cup AddOps
              /\ callLog'[k].op \in AddOps => callLog'[k].target = "calendar"]_vars

\* two events were written to a calendar that held two rows, which are
\* still its first two rows
C17_Witness ==
    /\ RunOver
    /\ Len(results) = 2
    /\ Len(calendarDb) = Len(ExistingCalendar) + 2
    /\ SubSeq(calendarDb, 1, Len(ExistingCalendar)) = ExistingCalendar

\* generateWeek returned a success result: the run reached its end
ReachedDone == RunOver /\ gw.kind = "returned" /\ gw.value.success

RequiredSettings == {"NOTION_API_KEY", "TEMPLATE_DB_ID", "CALENDAR_DB_ID"}

\* a required setting is absent from the environment (unset, or set to nothing)
SettingAbsent ==
    \E key \in RequiredSettings : key \notin DOMAIN processEnv \/ processEnv[key] = ""

\* C19: if any of the required settings (NOTION_API_KEY, TEMPLATE_DB_ID,
\* CALENDAR_DB_ID) is absent, the program fails while the configuration is
\* loaded and no network call is ever issued: generateWeek is never entered
\* and the process ends with a non-zero code.
C19_MissingSettingNoCalls ==
    SettingAbsent =>
        /\ pc \in {"loading", "loadFailed"}
        /\ callLog = <<>>
        /\ invoked = <<>>
        /\ entry = "none"
        /\ gw = Pending
        /\ pc = "loadFailed" => exitCode # 0

\* only CALENDAR_DB_ID is unset, and the process died while loading
C19_Witness ==
    /\ pc = "loadFailed"
    /\ DOMAIN processEnv = {"NOTION_API_KEY", "TEMPLATE_DB_ID"}
    /\ \A key \in DOMAIN processEnv : processEnv[key] # ""
    /\ exitCode = 1
    /\ callLog = <<>>

\* how the databases.retrieve calls on a data set settled, in order
RetrieveAttempts(target) ==
    LET cs == SelectSeq(callLog, LAMBDA c : c.op = "databases.retrieve" /\ c.target = target)
    IN [k \in 1..Len(cs) |-> cs[k].result]

\* how the databases.query calls settled, in order
QueryAttempts == [k \in 1..Len(QueryCalls) |-> QueryCalls[k].result]

\* the existence check of a data set failed
RetrieveFailed(target) ==
    RetrieveAttempts(target) # <<>> /\
    RetrieveAttempts(target)[Len(RetrieveAttempts(target))] = "failed"

ThreeFailures == <<"failed", "failed", "failed">>

\* C20 (as claimed): every failed network call of a run, the two existence
\* checks, the template query and each page create, is retried under the
\* bounded-retry policy, up to 3 attempts, before it counts as a final
\* failure.
C20_EveryCallRetried ==
    /\ QueryFailed => QueryAttempts = ThreeFailures
    /\ \A j \in 1..Len(events) : FinallyFailed(j) => Attempts(j) = ThreeFailures
    /\ \A target \in {"template", "calendar"} :
          (RunOver /\ RetrieveFailed(target)) => RetrieveAttempts(target) = ThreeFailures

\* C20 (amended): a failed template query and a failed page create are
\* retried, up to 3 attempts, before they count as a final failure; each of
\* the two existence checks is attempted once, and its failure is final at
\* once.
C20_QueryAndCreateRetried ==
    /\ LET q == QueryAttempts IN
       /\ Len(q) <= 3
       /\ (RunOver /\ q # <<>> /\ q[Len(q)] = "failed") => q = ThreeFailures
       /\ (q # <<>> /\ Len(q) < 3 /\ q[Len(q)] = "failed") => pc = "query"
    /\ \A j \in 1..Len(events) :
          LET a == Attempts(j) IN
          /\ Len(a) <= 3
          /\ (a # <<>> /\ a[Len(a)] = "failed" /\ (RunOver \/ j < eIdx)) => a = ThreeFailures
          /\ (a # <<>> /\ Len(a) < 3 /\ a[Len(a)] = "failed") => (pc = "create" /\ eIdx = j)
    /\ \A target \in {"template", "calendar"} :
          LET v == RetrieveAttempts(target) IN
          /\ Len(v) <= 1
          /\ (v # <<>> /\ v[1] = "failed") =>
                 /\ RunOver
                 /\ gw.kind = "threw"
                 /\ \A k \in 1..Len(callLog) : callLog[k].op = "databases.retrieve"

\* both existence checks passed at their only attempt, then the query
\* failed three times and the run was aborted
C20_Witness ==
    /\ RunOver
    /\ RetrieveAttempts("template") = <<"ok">>
    /\ RetrieveAttempts("calendar") = <<"ok">>
    /\ QueryAttempts = ThreeFailures
    /\ gw.kind = "threw"

\* ----------------------------------------------------------- C21 .. C30

\* the phase a call of the Notion client belongs to
PhaseOf(op) ==
    IF op = "databases.retrieve" THEN 1 ELSE IF op = "databases.query" THEN 2 ELSE 3

\* C21: the phases of a run occur only in the order VerifyingConnection,
\* FetchingTemplates, Transforming, WritingEvents, Done: the template query
\* is issued only after both existence checks succeeded, every task's
\* transform has finished (with an event or with a failure) before the first
\* page-create call, and the result is returned only after the last write
\* attempt has settled.
C21_PhaseOrder ==
    LET n == Len(callLog)
        queried == \E k \in 1..n : callLog[k].op = "databases.query"
        writing == \E k \in 1..n : callLog[k].op = "pages.create"
    IN /\ \A k \in 1..(n - 1) : PhaseOf(callLog[k].op) <= PhaseOf(callLog[k + 1].op)
       /\ queried =>
              /\ callLog[1] = [op |-> "databases.retrieve", target |-> "template",
                               event |-> 0, result |-> "ok"]
              /\ callLog[2] = [op |-> "databases.retrieve", target |-> "calendar",
                               event |-> 0, result |-> "ok"]
              /\ callLog[3].op = "databases.query"
       /\ pc = "transform" => (QuerySucceeded /\ ~writing /\ gw = Pending)
       /\ writing =>
              /\ QuerySucceeded
              /\ tIdx = Len(templateTasks) + 1
              /\ Len(events) + Len(transformErrors) = Len(templateTasks)
       /\ gw # Pending =>
              /\ \A k \in 1..n : callLog[k].result # "pending"
              /\ pc \in {"settled", "exited"}
       /\ (gw.kind = "returned" /\ templateTasks # <<>>) =>
              /\ tIdx = Len(templateTasks) + 1
              /\ \A j \in 1..Len(events) : Attempts(j) # <<>>

\* a run went through every phase: two checks, the query, two transforms
\* (one failed), a write that took two attempts, and the result
C21_Witness ==
    /\ pc = "settled"
    /\ gw.kind = "returned"
    /\ Len(templateTasks) = 2
    /\ Len(transformErrors) = 1
    /\ Attempts(1) = <<"failed", "ok">>
    /\ Len(callLog) = 5

\* the positions in callLog of the calls that have not settled
InFlight == {k \in 1..Len(callLog) : callLog[k].result = "pending"}

\* C22: within one run at most one network call is in flight at any time: a
\* page-create attempt (a retry included) for an event starts only after the
\* write of the event before it has succeeded or failed for good, and after
\* every earlier attempt for the same event has settled.
C22_OneCallInFlight ==
    LET n == Len(callLog) IN
    /\ InFlight \subseteq {n}
    /\ \A k \in 2..n :
          callLog[k].op = "pages.create" =>
              /\ callLog[k - 1].result # "pending"
              /\ callLog[k - 1].op = "pages.create" =>
                     \/ /\ callLog[k].event = callLog[k - 1].event
                        /\ callLog[k - 1].result = "failed"
                     \/ /\ callLog[k].event = callLog[k - 1].event + 1
                        /\ \/ callLog[k - 1].result = "ok"
                           \/ Len(SelectSeq(SubSeq(callLog, 1, k - 1),
                                   LAMBDA c : c.op = "pages.create" /\
                                              c.event = callLog[k - 1].event)) = 3
    /\ pc \in {"verifyTemplate", "verifyCalendar"} => InFlight = {n}
    /\ (pc \in {"query", "create"} /\ retry.status = "calling") => InFlight = {n}
    /\ (pc \in {"query", "create"} /\ retry.status = "waiting") => InFlight = {}

\* the third attempt to write the first event failed and the first attempt
\* for the second event is the only call in flight
C22_Witness ==
    /\ pc = "create"
    /\ eIdx = 2
    /\ Attempts(1) = <<"failed", "failed", "failed">>
    /\ Attempts(2) = <<"pending">>
    /\ InFlight = {Len(callLog)}

\* C23: in retryOperation the wait before attempt k+1 is the base delay
\* times k (1000 ms after the first failure, 2000 ms after the second, with
\* the defaults); a wait occurs only between attempts: none follows the last
\* failed attempt, none follows a successful attempt.
C23_LinearDelays ==
    LET w == retry.waits
        done == Len(retryLog)
    IN /\ \A k \in 1..Len(w) : w[k] = retry.delay * k
       /\ \A k \in 1..Len(w) : ~retryLog[k].ok
       /\ retry.delay = DefaultDelay => \A k \in 1..Len(w) : w[k] = 1000 * k
       /\ retry.status = "calling" => Len(w) = done
       /\ retry.status = "waiting" =>
              /\ Len(w) = done
              /\ done < retry.maxRetries
       /\ retry.status = "returned" =>
              /\ retryLog[done].ok
              /\ Len(w) = done - 1
       /\ retry.status = "threw" =>
              /\ done = retry.maxRetries
              /\ ~retryLog[done].ok
              /\ Len(w) = done - 1

\* with the defaults, three attempts failed: 1000 ms and 2000 ms were slept
C23_Witness ==
    /\ pc = "retryHarness"
    /\ retry.maxRetries = DefaultMaxRetries
    /\ retry.status = "threw"
    /\ retry.waits = <<1000, 2000>>
    /\ elapsedMs = 3000

\* an entry was added to the error list of the batch in this step
ErrorRecorded == Len(errors') = Len(errors) + 1

RowIncomplete(k) ==
    templateDb[k].Name = Absent \/ templateDb[k].Day = Absent \/ templateDb[k].Time = Absent

\* C25: a template row without its name, its day or its time is not rejected
\* by getTemplateTasks, which returns the field as an empty string, but
\* fails later in the transform, so that no page-create call is ever issued
\* for a row that lacks one of the three fields.
C25_IncompleteRowFails ==
    /\ \A k \in 1..Len(templateTasks) :
          /\ templateDb[k].Name = Absent => templateTasks[k].name = ""
          /\ templateDb[k].Day = Absent => templateTasks[k].day = ""
          /\ templateDb[k].Time = Absent => templateTasks[k].time = <<>>
    /\ TransformOver =>
          \A k \in 1..Len(templateTasks) : RowIncomplete(k) => RecordedAsFailure(k)
    /\ \A j \in SubmittedEvents : ~RowIncomplete(eventTask[j])

\* C26: the time zone label written with every calendar event is the label
\* the process configuration supplies (TIMEZONE, or its default when it is
\* not set), whatever value is configured.
C26_ConfiguredTimeZone ==
    \A k \in SubmittedEvents :
        CalendarRow(events[k]).Date.time_zone = config(processEnv).timezone

\* how many rows of the calendar data set equal row
Copies(row) == Cardinality({k \in 1..Len(calendarDb) : calendarDb[k] = row})

\* C27: runs are not idempotent and do not exclude one another: two
\* complete runs over the same template in the same week, one after the
\* other or interleaved, each issue their own page-create call for every
\* valid task, with no read of the calendar before the write, so that the
\* calendar ends with two rows for each valid task when all writes succeed.
C27_RunsDuplicate ==
    /\ pc = "create" => invoked = [k \in 1..eIdx |-> k]
    /\ BatchRan => invoked = EventIndexes
    /\ (BatchRan /\ Len(results) = Len(events) /\ OtherRunWritten = Len(RowsOfRun)) =>
          /\ Len(calendarDb) = 2 * Len(events)
          /\ \A j \in 1..Len(events) : Copies(CalendarRow(events[j])) = 2

\* interleaved runs: both rows of the first task were written before either
\* row of the second task
C27_Witness ==
    /\ pc = "exited"
    /\ Len(events) = 2
    /\ Len(results) = 2
    /\ calendarDb = <<CalendarRow(events[1]), CalendarRow(events[1]),
                      CalendarRow(events[2]), CalendarRow(events[2])>>

\* how many calls of an operation the run has issued
CallsOf(op) == Cardinality({k \in 1..Len(callLog) : callLog[k].op = op})

\* the bounds on the calls of a run over the rows of the template
CallBounds ==
    /\ CallsOf("databases.retrieve") <= 2
    /\ CallsOf("databases.query") <= 3
    /\ CallsOf("pages.create") <= 3 * Len(templateDb)
    /\ CallsOf("pages.create") <= 3 * Len(events)

\* C28: provided every network call eventually returns or fails, every run
\* eventually terminates, with a result or with a fatal abort, for any
\* template of N tasks and any pattern of call failures; it issues at most 2
\* retrieve calls, 3 query attempts and 3*N page-create attempts.
C28_Terminates ==
    /\ (pc = "idle") ~> (pc = "exited" /\ gw.kind \in {"returned", "threw"})
    /\ []CallBounds

\* a run over two tasks ended after 2 retrieves, one query and 6 attempts
\* to create a page, all of which failed
C28_Witness ==
    /\ pc = "exited"
    /\ Len(templateDb) = 2
    /\ CallsOf("databases.retrieve") = 2
    /\ CallsOf("pages.create") = 6
    /\ results = <<>>

\* C29: accounting of a completed run over a template that has rows:
\* created + failed is the number of tasks whose transform succeeded, the
\* errors list has exactly `failed` entries, created + failed + the number
\* of transform failures is the number of fetched tasks, and no event is
\* counted both as created and as failed.
C29_Accounting ==
    (ReachedDone /\ templateTasks # <<>>) =>
        LET r == gw.value
            createdEvents == {j \in 1..Len(events) : Written(j)}
            failedEvents == {j \in 1..Len(events) : FinallyFailed(j)}
        IN /\ r.created + r.failed = Len(events)
           /\ Len(r.errors) = r.failed
           /\ r.created + r.failed + Len(transformErrors) = Len(templateTasks)
           /\ Len(templateTasks) = Len(templateDb)
           /\ r.created = Cardinality(createdEvents)
           /\ r.failed = Cardinality(failedEvents)
           /\ createdEvents \cap failedEvents = {}

\* of two valid tasks one was created and one failed to be written
C29_Witness ==
    /\ ReachedDone
    /\ Len(templateTasks) = 2
    /\ gw.value.created = 1
    /\ gw.value.failed = 1
    /\ transformErrors = <<>>

\* the Monday-to-Sunday week (counted from the epoch, in the local time of
\* the process) in which an event starts; the start string is one hour
\* behind the start instant
WeekOfEvent(event) ==
    LocalDay(IsoMinutes(event.date.start) - offsetHours * 60, tzOffset) \div 7

\* C30: all events produced by one run fall in the same target week: the
\* clock is read inside each task's transform, and even if it advances
\* between two transforms of the run, across the boundary from Sunday to
\* Monday included, the date of every event lies in one and the same
\* Monday-to-Sunday window.
C30_SameTargetWeek ==
    \A i, j \in 1..Len(events) : WeekOfEvent(events[i]) = WeekOfEvent(events[j])

====
